---- MODULE Spec2Model ----
(***************************************************************************)
(* ExperimentConfig (transfer_nlp/plugins/config.py): the declarative      *)
(* object-graph builder.  A configuration is an ordered mapping from keys  *)
(* to scalars, lists and descriptor dicts; __init__ classifies it and      *)
(* _build_items resolves the descriptors in three tiers                    *)
(* (default_params_mode 0, 1, 2), each a loop of full passes.              *)
(***************************************************************************)
EXTENDS Integers, Sequences, FiniteSets, TLC

(* The state of one ExperimentConfig under construction: the locals of     *)
(* __init__ and _build_items, the two attributes of the object, and the    *)
(* history of the run (built, calls, thrown); pass_i is the counter i of   *)
(* line 192.                                                               *)
VARIABLES raw, pc, mode, config, experiment, factories, idx, configured,
          unconfigured, error, items, selfExperiment, built, pass_i, calls, thrown

(* The state around the run: registry is the module-level dict CLASSES     *)
(* (the definition CLASSES below is its content at import time), call the  *)
(* last call made from outside __init__, with its outcome, first the       *)
(* outcome of an earlier ExperimentConfig built from the same              *)
(* configuration, subs one application of do_env_subs.                     *)
VARIABLES registry, call, first, subs

aux == <<registry, call, first, subs>>

vars == <<raw, pc, mode, config, experiment, factories, idx, configured,
          unconfigured, error, items, selfExperiment, built, pass_i, calls, thrown,
          aux>>

(***************************************************************************)
(* Bounds of the model.                                                    *)
(***************************************************************************)
MaxEntries == 3

(***************************************************************************)
(* Python values.  A string is a sequence of tokens; the underscore is a   *)
(* token of its own, so p[-1] == '_' and p[:-1] are computed, not looked   *)
(* up.  Every value is a record of one shape so that any two can be        *)
(* compared: t is the type ("str", "num", "list", "dict", "none", or "obj" *)
(* for an instance built by a registered class, "default" for a value      *)
(* taken from a signature, "self" for the ExperimentConfig), s the tokens  *)
(* of a string or the name of an object, elems the items of a list and     *)
(* fields the items of a dict.                                             *)
(***************************************************************************)
PyStr(s) == [t |-> "str", s |-> s, elems |-> <<>>, fields |-> <<>>]

PyNum(n) == [t |-> "num", s |-> <<n>>, elems |-> <<>>, fields |-> <<>>]

PyList(elems) == [t |-> "list", s |-> <<>>, elems |-> elems, fields |-> <<>>]

PyDict(fields) == [t |-> "dict", s |-> <<>>, elems |-> <<>>, fields |-> fields]

PyNone == [t |-> "none", s |-> <<>>, elems |-> <<>>, fields |-> <<>>]

(* The instance the constructor call at line 263 returns for key k. *)
Obj(name, k) == [t |-> "obj", s |-> name \o k, elems |-> <<>>, fields |-> <<>>]

(* The default value a signature declares for `arg`. *)
Default(name, arg) == [t |-> "default", s |-> name \o arg, elems |-> <<>>, fields |-> <<>>]

(* The ExperimentConfig instance itself (`self`). *)
SELF == [t |-> "self", s |-> <<"ExperimentConfig">>, elems |-> <<>>, fields |-> <<>>]

isinstance(v, type) == v.t = type

(***************************************************************************)
(* Ordered dicts (Python keeps insertion order): sequences of key/value    *)
(* records.                                                                *)
(***************************************************************************)
DictKeys(d) == {d[i].key : i \in 1..Len(d)}

DictHas(d, k) == \E i \in 1..Len(d) : d[i].key = k

DictGet(d, k) == d[CHOOSE i \in 1..Len(d) : d[i].key = k].val

DictSet(d, k, v) ==
    IF DictHas(d, k)
    THEN [i \in 1..Len(d) |-> IF d[i].key = k THEN [key |-> k, val |-> v] ELSE d[i]]
    ELSE Append(d, [key |-> k, val |-> v])

DictDel(d, ks) == SelectSeq(d, LAMBDA e : e.key \notin ks)

(***************************************************************************)
(* str.replace(old, new): every non-overlapping occurrence, left to right. *)
(* An empty `old` matches between all characters, as in Python.            *)
(***************************************************************************)
StartsWith(s, i, old) ==
    /\ i + Len(old) - 1 <= Len(s)
    /\ \A j \in 1..Len(old) : s[i + j - 1] = old[j]

RECURSIVE ReplaceFrom(_, _, _, _)
ReplaceFrom(s, i, old, new) ==
    IF i > Len(s) THEN IF old = <<>> THEN new ELSE <<>>
    ELSE IF old = <<>> THEN new \o <<s[i]>> \o ReplaceFrom(s, i + 1, old, new)
    ELSE IF StartsWith(s, i, old) THEN new \o ReplaceFrom(s, i + Len(old), old, new)
    ELSE <<s[i]>> \o ReplaceFrom(s, i + 1, old, new)

Replace(s, old, new) == ReplaceFrom(s, 1, old, new)

(***************************************************************************)
(* env_keys = sorted(env.keys(), key=len, reverse=True): a stable sort,    *)
(* so keys of one length keep the order of the env mapping.                *)
(***************************************************************************)
RECURSIVE InsertByLen(_, _)
InsertByLen(sorted, k) ==
    IF sorted = <<>> THEN <<k>>
    ELSE IF Len(Head(sorted)) >= Len(k) THEN <<Head(sorted)>> \o InsertByLen(Tail(sorted), k)
    ELSE <<k>> \o sorted

RECURSIVE SortByLenDesc(_)
SortByLenDesc(ks) ==
    IF ks = <<>> THEN <<>>
    ELSE InsertByLen(SortByLenDesc(SubSeq(ks, 1, Len(ks) - 1)), ks[Len(ks)])

env_keys(env) == SortByLenDesc([i \in 1..Len(env) |-> env[i].key])

RECURSIVE SubsAll(_, _, _)
SubsAll(s, keys, env) ==
    IF keys = <<>> THEN s
    ELSE SubsAll(Replace(s, Head(keys), DictGet(env, Head(keys))), Tail(keys), env)

(* do_env_subs(v): strings are rewritten, other scalars pass through. *)
do_env_subs(env, v) ==
    IF v.t = "str" THEN [v EXCEPT !.s = SubsAll(v.s, env_keys(env), env)] ELSE v

(***************************************************************************)
(* The registry.  CLASSES maps a type name to a constructor; the model     *)
(* keeps of a constructor what inspect.getfullargspec reads: the argument  *)
(* names (self first) and the trailing default values.                     *)
(***************************************************************************)
NAME == <<"_", "name">>

experiment_config == <<"experiment_config">>

Box == <<"Box">>

Opt == <<"Opt">>

Plug == <<"Plug">>

CLASSES ==
    (Box :> [name |-> Box, args |-> << <<"self">>, <<"value">> >>, defaults |-> <<>>])
    @@ (Opt :> [name |-> Opt, args |-> << <<"self">>, <<"p">> >>,
                defaults |-> << Default(Opt, <<"p">>) >>])
    @@ (Plug :> [name |-> Plug,
                 args |-> << <<"self">>, <<"value">>, experiment_config >>,
                 defaults |-> << Default(Plug, experiment_config) >>])

(* CLASSES.get(name): None when the name is not registered. *)
CLASSES_get(name) == IF name \in DOMAIN registry THEN registry[name] ELSE PyNone

(***************************************************************************)
(* _build_items, the body of the for loop for one descriptor v.            *)
(***************************************************************************)
Min(a, b) == IF a <= b THEN a ELSE b

(* spec.args[1:] *)
CtorArgs(spec) == Tail(spec.args)

(* {p: pv for p, pv in zip(reversed(spec.args), reversed(spec.defaults))} *)
default_params(spec) ==
    LET n == Min(Len(spec.args), Len(spec.defaults))
        pos(a) == CHOOSE i \in 1..n : spec.args[Len(spec.args) + 1 - i] = a
    IN  [a \in {spec.args[Len(spec.args) + 1 - i] : i \in 1..n} |->
            spec.defaults[Len(spec.defaults) + 1 - pos(a)]]

(* {p: pv for p, pv in v.items() if p != '_name'} *)
named_params(v) == [p \in DOMAIN v.fields \ {NAME} |-> v.fields[p]]

(* literal_params[p[:-1]] = pv for every field with p[-1] == '_' *)
literal_params(v) ==
    [q \in {SubSeq(p, 1, Len(p) - 1) : p \in {f \in DOMAIN v.fields : f[Len(f)] = "_"}} |->
        v.fields[Append(q, "_")]]

(* The two ValueErrors of the loop over v.items() (lines 221-228). *)
BadField(v) ==
    \E p \in DOMAIN v.fields :
        /\ p[Len(p)] # "_"
        /\ LET pv == v.fields[p] IN
           IF isinstance(pv, "list")
           THEN \E i \in 1..Len(pv.elems) : ~isinstance(pv.elems[i], "str")
           ELSE ~isinstance(pv, "str")

(* The loop of lines 242-246: the values of the leading resolved keys. *)
RECURSIVE param_list(_, _)
param_list(alias, exp) ==
    IF alias = <<>> THEN <<>>
    ELSE IF DictHas(exp, Head(alias).s)
         THEN <<DictGet(exp, Head(alias).s)>> \o param_list(Tail(alias), exp)
         ELSE <<>>

Unset == [set |-> FALSE, val |-> PyNone, keyset |-> FALSE, key |-> PyNone, src |-> "none"]

Bound(val, key, src) == [set |-> TRUE, val |-> val, keyset |-> TRUE, key |-> key, src |-> src]

(* Lines 235-237: the reserved argument name is bound to the resolver. *)
SelfBinding(arg) ==
    IF arg = experiment_config THEN Bound(SELF, PyStr(arg), "self") ELSE Unset

(* Mutant of AliasBinding: the length test of line 247 is dropped, so a    *)
(* list alias is supplied from the keys resolved so far.                   *)
AliasBinding_PartialList(prev, alias, exp) ==
    IF isinstance(alias, "list")
    THEN Bound(PyList(param_list(alias.elems, exp)), alias, "list_alias")
    ELSE IF DictHas(exp, alias.s)
         THEN Bound(DictGet(exp, alias.s), alias, "alias")
         ELSE [prev EXCEPT !.keyset = TRUE, !.key = alias]

(* Lines 238-251: the descriptor names an alias for the argument. *)
AliasBinding(prev, alias, exp) ==
    IF isinstance(alias, "list")
    THEN LET pl == param_list(alias.elems, exp) IN
         IF Len(pl) = Len(alias.elems)
         THEN Bound(PyList(pl), alias, "list_alias")
         ELSE [prev EXCEPT !.keyset = TRUE, !.key = alias]
    ELSE IF DictHas(exp, alias.s)
         THEN Bound(DictGet(exp, alias.s), alias, "alias")
         ELSE [prev EXCEPT !.keyset = TRUE, !.key = alias]

(* Mutants of DefaultAllowed: the last tier keeps the tier-1 exclusion; the *)
(* tier-1 exclusion is dropped.                                            *)
DefaultAllowed_Tier2Guarded(m, arg, cfg, defaults) ==
    m \in {1, 2} /\ ~DictHas(cfg, arg) /\ arg \in DOMAIN defaults

DefaultAllowed_Tier1Unguarded(m, arg, cfg, defaults) ==
    m \in {1, 2} /\ arg \in DOMAIN defaults

(* Lines 255 and 258: whether the default may fill the argument. *)
DefaultAllowed(m, arg, cfg, defaults) ==
    \/ m = 1 /\ ~DictHas(cfg, arg) /\ arg \in DOMAIN defaults
    \/ m = 2 /\ arg \in DOMAIN defaults

(* Mutant of FallbackBinding: the default is tried before the key match. *)
FallbackBinding_DefaultFirst(prev, arg, spec, cfg, exp, m) ==
    IF DefaultAllowed(m, arg, cfg, default_params(spec))
    THEN Bound(default_params(spec)[arg], PyNone, "default")
    ELSE IF DictHas(exp, arg) THEN Bound(DictGet(exp, arg), PyStr(arg), "direct")
    ELSE prev

(* Mutant of FallbackBinding: a default is recorded under the name of the  *)
(* argument.                                                               *)
FallbackBinding_DefaultKeyed(prev, arg, spec, cfg, exp, m) ==
    IF DictHas(exp, arg) THEN Bound(DictGet(exp, arg), PyStr(arg), "direct")
    ELSE IF DefaultAllowed(m, arg, cfg, default_params(spec))
         THEN Bound(default_params(spec)[arg], PyStr(arg), "default")
         ELSE prev

(* Lines 252-260: direct key match, then the default the tier allows. *)
FallbackBinding(prev, arg, spec, cfg, exp, m) ==
    IF DictHas(exp, arg) THEN Bound(DictGet(exp, arg), PyStr(arg), "direct")
    ELSE IF DefaultAllowed(m, arg, cfg, default_params(spec))
         THEN Bound(default_params(spec)[arg], PyNone, "default")
         ELSE prev

(* Mutant of BindArg: the alias is looked up before the literal override. *)
BindArg_AliasFirst(v, spec, arg, cfg, exp, m) ==
    IF arg \in DOMAIN named_params(v) /\ AliasBinding(Unset, named_params(v)[arg], exp).set
    THEN AliasBinding(Unset, named_params(v)[arg], exp)
    ELSE IF arg \in DOMAIN literal_params(v)
    THEN Bound(literal_params(v)[arg], PyNone, "literal")
    ELSE IF arg \in DOMAIN named_params(v)
         THEN AliasBinding(SelfBinding(arg), named_params(v)[arg], exp)
         ELSE FallbackBinding(SelfBinding(arg), arg, spec, cfg, exp, m)

(* Lines 231-260: params[arg] and param2config_key[arg] for one argument. *)
BindArg(v, spec, arg, cfg, exp, m) ==
    IF arg \in DOMAIN literal_params(v)
    THEN Bound(literal_params(v)[arg], PyNone, "literal")
    ELSE IF arg \in DOMAIN named_params(v)
         THEN AliasBinding(SelfBinding(arg), named_params(v)[arg], exp)
         ELSE FallbackBinding(SelfBinding(arg), arg, spec, cfg, exp, m)

(* The for loop of line 230 over all arguments. *)
Bindings(v, spec, cfg, exp, m) ==
    [arg \in {CtorArgs(spec)[i] : i \in 1..Len(CtorArgs(spec))} |->
        BindArg(v, spec, arg, cfg, exp, m)]

(* params, param2config_key: the entries the loop assigned. *)
ParamsOf(b) == [arg \in {a \in DOMAIN b : b[a].set} |-> b[arg].val]

Param2ConfigKeyOf(b) == [arg \in {a \in DOMAIN b : b[a].keyset} |-> b[arg].key]

SourcesOf(b) == [arg \in DOMAIN b |-> b[arg].src]

(* Line 262: len(params) == len(spec.args) - 1 *)
Ready(b, spec) == Cardinality(DOMAIN ParamsOf(b)) = Len(spec.args) - 1

(* Line 267: {arg for arg in spec.args[1:] if arg not in params} *)
Missing(b) == {arg \in DOMAIN b : ~b[arg].set}

(***************************************************************************)
(* The inputs of a run: the configurations the model draws from.  Each     *)
(* top-level key has a few candidate values; a configuration is an ordered *)
(* choice of at most MaxEntries distinct keys with one candidate each.     *)
(***************************************************************************)
Desc(name, fields) == PyDict((NAME :> PyStr(name)) @@ fields)

Lit(p) == Append(p, "_")

KeyA == <<"a">>

KeyB == <<"b">>

KeyP == <<"p">>

KeyValue == <<"value">>

AllKeys == {KeyA, KeyB, KeyP, KeyValue, experiment_config}

Candidates(k) ==
    CASE k = KeyA ->
           { PyStr(<<"D", "R", "/">>),
             PyList(<<PyNum("5"), PyStr(<<"D", "R">>)>>),
             Desc(Opt, <<>>),
             Desc(Box, <<>>) }
      [] k = experiment_config ->
           { PyNum("7"),
             Desc(Box, KeyValue :> PyList(<<PyStr(KeyA), PyStr(KeyP)>>)),
             Desc(Plug, Lit(KeyValue) :> PyNum("9")),
             PyDict(KeyValue :> PyStr(KeyA)) }
      [] k = KeyP ->
           { Desc(Opt, <<>>),
             Desc(Box, KeyValue :> PyStr(KeyA)),
             Desc(<<"Nope">>, <<>>) }
      [] k = KeyValue ->
           { Desc(Opt, KeyP :> PyStr(KeyA)),
             Desc(Box, (Lit(KeyValue) :> PyNum("9")) @@ (KeyValue :> PyStr(KeyA))),
             PyList(<<PyNum("5"), PyList(<<>>)>>) }
      [] k = KeyB ->
           { Desc(Plug, <<>>),
             Desc(Plug, (Lit(KeyValue) :> PyNum("9")) @@ (KeyValue :> PyStr(KeyA))
                        @@ (experiment_config :> PyStr(KeyA))),
             Desc(Plug, (KeyValue :> PyStr(KeyA))
                        @@ (experiment_config :> PyList(<<PyStr(KeyA), PyStr(KeyP)>>))),
             Desc(Plug, Lit(experiment_config) :> PyNum("9")),
             Desc(Box, KeyValue :> PyNum("3")) }

RECURSIVE ConfigsOfLen(_)
ConfigsOfLen(n) ==
    IF n = 0 THEN {<<>>}
    ELSE UNION { UNION { { Append(c, [key |-> k, val |-> v]) : v \in Candidates(k) }
                         : k \in AllKeys \ DictKeys(c) }
                 : c \in ConfigsOfLen(n - 1) }

(* The substitution variables (the env keyword arguments) of the run. *)
RunEnv == << [key |-> <<"D">>, val |-> <<"x">>], [key |-> <<"D", "R">>, val |-> <<"y">>] >>

(***************************************************************************)
(* ExperimentConfig.__init__, lines 132-154: classification.               *)
(***************************************************************************)
IsSimple(v) == ~isinstance(v, "dict") /\ ~isinstance(v, "list")

IsSimpleList(v) ==
    isinstance(v, "list") /\ \A i \in 1..Len(v.elems) : IsSimple(v.elems[i])

ParamFactory(param) ==
    [factory |-> "ParamFactory", cls |-> <<>>, hasKeys |-> FALSE,
     param2config_key |-> <<>>, args |-> <<param>>, kwargs |-> <<>>]

PluginFactory(cls, hasKeys, param2config_key, args, kwargs) ==
    [factory |-> "PluginFactory", cls |-> cls, hasKeys |-> hasKeys,
     param2config_key |-> param2config_key, args |-> args, kwargs |-> kwargs]

SubstList(env, v) == PyList([i \in 1..Len(v.elems) |-> do_env_subs(env, v.elems[i])])

(* The experiment dict after the two extraction loops. *)
SimpleParams(cfg, env) ==
    LET scalars == SelectSeq(cfg, LAMBDA e : IsSimple(e.val))
        lists   == SelectSeq(cfg, LAMBDA e : IsSimpleList(e.val))
    IN  [i \in 1..Len(scalars) |->
            [key |-> scalars[i].key, val |-> do_env_subs(env, scalars[i].val)]]
        \o [i \in 1..Len(lists) |->
            [key |-> lists[i].key, val |-> SubstList(env, lists[i].val)]]

SimpleFactories(cfg, env) ==
    [k \in DictKeys(SimpleParams(cfg, env)) |->
        IF isinstance(DictGet(cfg, k), "list")
        THEN PluginFactory(<<"list">>, FALSE, <<>>, <<DictGet(SimpleParams(cfg, env), k)>>, <<>>)
        ELSE ParamFactory(DictGet(SimpleParams(cfg, env), k))]

NoSelfExperiment == [isNone |-> TRUE, dict |-> <<>>]

(* No ExperimentConfig was built from the configuration before this one. *)
NoFirst == [ran |-> FALSE, pc |-> "init", error |-> "none", items |-> <<>>,
            experiment |-> <<>>, factories |-> <<>>]

(* do_env_subs was not applied. *)
NoSubs == [env |-> <<>>, v |-> PyNone, out |-> PyNone, applied |-> FALSE]

(* No call was made on the object yet. *)
NoCall == [op |-> "none", key |-> <<>>, result |-> "none", value |-> PyNone]

(* One more invocation of the constructor of the descriptor at key k. *)
Called(c, k) == (k :> (IF k \in DOMAIN c THEN c[k] + 1 ELSE 1)) @@ c

Start ==
    /\ pc = "init"
    /\ mode = 0
    /\ config = raw
    /\ experiment = <<>>
    /\ factories = <<>>
    /\ idx = 0
    /\ configured = {}
    /\ unconfigured = <<>>
    /\ error = "none"
    /\ items = <<>>
    /\ selfExperiment = NoSelfExperiment
    /\ built = <<>>
    /\ pass_i = 1
    /\ calls = <<>>
    /\ thrown = {}
    /\ registry = CLASSES
    /\ call = NoCall
    /\ first = NoFirst

Init ==
    /\ raw \in UNION { ConfigsOfLen(n) : n \in 0..MaxEntries }
    /\ Start
    /\ subs = NoSubs

(* Mutant of Classify: lines 153-154 are dropped. *)
Classify_KeepsExtracted ==
    /\ pc = "init"
    /\ experiment' = SimpleParams(config, RunEnv)
    /\ factories' = SimpleFactories(config, RunEnv)
    /\ pc' = "while"
    /\ UNCHANGED <<aux, raw, config, mode, idx, configured, unconfigured, error,
                   items, selfExperiment, built, pass_i, calls, thrown>>

Classify ==
    /\ pc = "init"
    /\ experiment' = SimpleParams(config, RunEnv)
    /\ factories' = SimpleFactories(config, RunEnv)
    /\ config' = DictDel(config, DictKeys(SimpleParams(config, RunEnv)))
    /\ pc' = "while"
    /\ UNCHANGED <<aux, raw, mode, idx, configured, unconfigured, error, items,
                   selfExperiment, built>>
    /\ UNCHANGED <<pass_i, calls, thrown>>

(***************************************************************************)
(* ExperimentConfig.__init__, lines 156-180, and _build_items.  pc is the  *)
(* place in the code: "while" is the loop test of line 193 in the call     *)
(* with default_params_mode = mode, "for" the loop of line 198 at item     *)
(* idx, "done" the end of __init__ and "raised" an exception that left     *)
(* __init__.                                                               *)
(***************************************************************************)
LastMode == 2

(* Mutant of BeginPass: the dict gives its items in either direction. *)
BeginPass_AnyOrder ==
    /\ pc = "while"
    /\ config # <<>>
    /\ pc' = "for"
    /\ idx' = 1
    /\ configured' = {}
    /\ unconfigured' = <<>>
    /\ config' \in {config, [n \in 1..Len(config) |-> config[Len(config) + 1 - n]]}
    /\ pass_i' = pass_i + 1
    /\ UNCHANGED <<aux, raw, mode, experiment, factories, error, items,
                   selfExperiment, built, calls, thrown>>

BeginPass ==
    /\ pc = "while"
    /\ config # <<>>
    /\ pc' = "for"
    /\ idx' = 1
    /\ configured' = {}
    /\ unconfigured' = <<>>
    /\ UNCHANGED <<aux, raw, mode, config, experiment, factories, error, items,
                   selfExperiment, built>>
    /\ pass_i' = pass_i + 1
    /\ UNCHANGED <<calls, thrown>>

(* _build_items returns; __init__ calls it with the next mode. *)
TierReturn ==
    /\ pc = "while"
    /\ config = <<>>
    /\ mode < LastMode
    /\ mode' = mode + 1
    /\ UNCHANGED <<aux, raw, pc, config, experiment, factories, idx, configured,
                   unconfigured, error, items, selfExperiment, built>>
    /\ pass_i' = 1
    /\ UNCHANGED <<calls, thrown>>

(* The last call returns; line 180 publishes the experiment. *)
Finish ==
    /\ pc = "while"
    /\ config = <<>>
    /\ mode = LastMode
    /\ pc' = "done"
    /\ selfExperiment' = [isNone |-> FALSE, dict |-> experiment]
    /\ UNCHANGED <<aux, raw, mode, config, experiment, factories, idx, configured,
                   unconfigured, error, items, built>>
    /\ UNCHANGED <<pass_i, calls, thrown>>

InFor == pc = "for" /\ idx <= Len(config)

(* The ValueError, if any, that lines 200-228 raise for the value v. *)
ItemError(v) ==
    IF ~isinstance(v, "dict") THEN "must_be_dict"
    ELSE IF NAME \notin DOMAIN v.fields THEN "no_name"
    ELSE IF CLASSES_get(v.fields[NAME].s) = PyNone THEN "not_registered"
    ELSE IF BadField(v) THEN "string_required"
    ELSE "none"

(* The bindings of the item at idx, once lines 200-228 raised nothing. *)
ItemSpec(v) == CLASSES_get(v.fields[NAME].s)

ItemBindings(v) == Bindings(v, ItemSpec(v), config, experiment, mode)

(* Mutants of VisitRaise: the error is recorded and the loop goes on; an   *)
(* unregistered name is treated as one more unconfigured item.             *)
VisitRaise_Deferred ==
    /\ InFor
    /\ ItemError(config[idx].val) # "none"
    /\ error' = ItemError(config[idx].val)
    /\ idx' = idx + 1
    /\ pc' = IF idx = Len(config) THEN "raised" ELSE pc
    /\ UNCHANGED <<aux, raw, mode, config, experiment, factories, configured,
                   unconfigured, items, selfExperiment, built>>
    /\ UNCHANGED <<pass_i, calls, thrown>>

VisitRaise_UnknownAsUnconfigured ==
    /\ InFor
    /\ ItemError(config[idx].val) # "none"
    /\ IF ItemError(config[idx].val) = "not_registered"
       THEN /\ unconfigured' = (config[idx].key :> {NAME}) @@ unconfigured
            /\ idx' = idx + 1
            /\ UNCHANGED <<pc, error>>
       ELSE /\ pc' = "raised"
            /\ error' = ItemError(config[idx].val)
            /\ UNCHANGED <<idx, unconfigured>>
    /\ UNCHANGED <<aux, raw, mode, config, experiment, factories, configured,
                   items, selfExperiment, built>>
    /\ UNCHANGED <<pass_i, calls, thrown>>

VisitRaise ==
    /\ InFor
    /\ ItemError(config[idx].val) # "none"
    /\ pc' = "raised"
    /\ error' = ItemError(config[idx].val)
    /\ UNCHANGED <<aux, raw, mode, config, experiment, factories, idx, configured,
                   unconfigured, items, selfExperiment, built>>
    /\ UNCHANGED <<pass_i, calls, thrown>>

VisitConstruct ==
    /\ InFor
    /\ ItemError(config[idx].val) = "none"
    /\ LET k == config[idx].key
           v == config[idx].val
           b == ItemBindings(v)
       IN  /\ Ready(b, ItemSpec(v))
           /\ experiment' = DictSet(experiment, k, Obj(ItemSpec(v).name, k))
           /\ factories' = (k :> PluginFactory(ItemSpec(v).name, TRUE,
                                   Param2ConfigKeyOf(b), <<>>, ParamsOf(b))) @@ factories
           /\ configured' = configured \cup {k}
           /\ built' = (k :> [tier |-> mode, src |-> SourcesOf(b),
                              resolved |-> DictKeys(experiment),
                              pending |-> DictKeys(config)]) @@ built
    /\ idx' = idx + 1
    /\ UNCHANGED <<aux, raw, pc, mode, config, unconfigured, error, items, selfExperiment>>
    /\ calls' = Called(calls, config[idx].key)
    /\ UNCHANGED <<pass_i, thrown>>

(* The constructor call of line 263 raises: nothing catches it. *)
VisitConstructRaises ==
    /\ InFor
    /\ ItemError(config[idx].val) = "none"
    /\ Ready(ItemBindings(config[idx].val), ItemSpec(config[idx].val))
    /\ pc' = "raised"
    /\ error' = "constructor"
    /\ UNCHANGED <<aux, raw, mode, config, experiment, factories, idx, configured,
                   unconfigured, items, selfExperiment, built>>
    /\ calls' = Called(calls, config[idx].key)
    /\ thrown' = thrown \cup {config[idx].key}
    /\ UNCHANGED pass_i

(* The constructor call of line 263 raises an UnconfiguredItemsException   *)
(* of its own in mode 0 or 1: the handler of line 159 or 165 takes it for  *)
(* the one of line 274 and __init__ goes to the next mode, lines 269-271   *)
(* skipped.  In the last mode line 178 raises it again, which is           *)
(* VisitConstructRaises.                                                   *)
VisitConstructRaisesUnconfigured ==
    /\ InFor
    /\ ItemError(config[idx].val) = "none"
    /\ Ready(ItemBindings(config[idx].val), ItemSpec(config[idx].val))
    /\ mode < LastMode
    /\ calls' = Called(calls, config[idx].key)
    /\ thrown' = thrown \cup {config[idx].key}
    /\ mode' = mode + 1
    /\ pc' = "while"
    /\ pass_i' = 1
    /\ UNCHANGED <<aux, raw, config, experiment, factories, idx, configured,
                   unconfigured, error, items, selfExperiment, built>>

(* Mutant of VisitUnconfigured: the report keeps only the last item. *)
VisitUnconfigured_KeepsLast ==
    /\ InFor
    /\ ItemError(config[idx].val) = "none"
    /\ LET k == config[idx].key
           b == ItemBindings(config[idx].val)
       IN  /\ ~Ready(b, ItemSpec(config[idx].val))
           /\ unconfigured' = (k :> Missing(b))
    /\ idx' = idx + 1
    /\ UNCHANGED <<aux, raw, pc, mode, config, experiment, factories, configured,
                   error, items, selfExperiment, built>>
    /\ UNCHANGED <<pass_i, calls, thrown>>

VisitUnconfigured ==
    /\ InFor
    /\ ItemError(config[idx].val) = "none"
    /\ LET k == config[idx].key
           b == ItemBindings(config[idx].val)
       IN  /\ ~Ready(b, ItemSpec(config[idx].val))
           /\ unconfigured' = (k :> Missing(b)) @@ unconfigured
    /\ idx' = idx + 1
    /\ UNCHANGED <<aux, raw, pc, mode, config, experiment, factories, configured,
                   error, items, selfExperiment, built>>
    /\ UNCHANGED <<pass_i, calls, thrown>>

ForDone == pc = "for" /\ idx > Len(config)

(* Mutant of PassConfigured: lines 270-271 are dropped. *)
PassConfigured_KeepsPending ==
    /\ ForDone
    /\ configured # {}
    /\ pc' = "while"
    /\ UNCHANGED <<aux, raw, mode, config, experiment, factories, idx, configured,
                   unconfigured, error, items, selfExperiment, built, pass_i,
                   calls, thrown>>

(* Lines 269-271: the pass configured something. *)
PassConfigured ==
    /\ ForDone
    /\ configured # {}
    /\ config' = DictDel(config, configured)
    /\ pc' = "while"
    /\ UNCHANGED <<aux, raw, mode, experiment, factories, idx, configured,
                   unconfigured, error, items, selfExperiment, built>>
    /\ UNCHANGED <<pass_i, calls, thrown>>

(* Mutant of PassStuckNextTier: the exception of line 274 leaves __init__. *)
PassStuckNextTier_Aborts ==
    /\ ForDone
    /\ configured = {}
    /\ config # <<>>
    /\ mode < LastMode
    /\ pc' = "raised"
    /\ error' = "UnconfiguredItems"
    /\ items' = unconfigured
    /\ UNCHANGED <<aux, raw, mode, config, experiment, factories, idx, configured,
                   unconfigured, selfExperiment, built, pass_i, calls, thrown>>

(* Line 274 raises; lines 159 and 165 swallow it and go to the next mode. *)
PassStuckNextTier ==
    /\ ForDone
    /\ configured = {}
    /\ config # <<>>
    /\ mode < LastMode
    /\ mode' = mode + 1
    /\ pc' = "while"
    /\ UNCHANGED <<aux, raw, config, experiment, factories, idx, configured,
                   unconfigured, error, items, selfExperiment, built>>
    /\ pass_i' = 1
    /\ UNCHANGED <<calls, thrown>>

(* Line 274 raises in the last mode; line 178 raises it again. *)
PassStuckRaise ==
    /\ ForDone
    /\ configured = {}
    /\ config # <<>>
    /\ mode = LastMode
    /\ pc' = "raised"
    /\ error' = "UnconfiguredItems"
    /\ items' = unconfigured
    /\ UNCHANGED <<aux, raw, mode, config, experiment, factories, idx, configured,
                   unconfigured, selfExperiment, built>>
    /\ UNCHANGED <<pass_i, calls, thrown>>

Next ==
    \/ Classify
    \/ BeginPass
    \/ TierReturn
    \/ Finish
    \/ VisitRaise
    \/ VisitConstruct
    \/ VisitConstructRaises
    \/ VisitConstructRaisesUnconfigured
    \/ VisitUnconfigured
    \/ PassConfigured
    \/ PassStuckNextTier
    \/ PassStuckRaise

Spec == Init /\ [][Next]_vars

(***************************************************************************)
(* register_plugin, lines 64-69.  The classes offered for registration     *)
(* are two different classes under each of a few names, one of which is    *)
(* the name of a class already in CLASSES.                                 *)
(***************************************************************************)
run == <<raw, pc, mode, config, experiment, factories, idx, configured,
         unconfigured, error, items, selfExperiment, built, pass_i, calls, thrown>>

Plugins ==
    { [name |-> n, args |-> a, defaults |-> <<>>] :
        n \in {Box, <<"Nope">>, <<"New">>, <<"Other">>},
        a \in { << <<"self">> >>, << <<"self">>, <<"value">> >> } }

Returned(op, key, value) == [op |-> op, key |-> key, result |-> "returned", value |-> value]

Raised(op, key, exc) == [op |-> op, key |-> key, result |-> exc, value |-> PyNone]

(* Mutant of register_plugin: a registered name is registered again. *)
register_plugin_Overwrites(clazz) ==
    /\ registry' = (clazz.name :> clazz) @@ registry
    /\ call' = Returned("register_plugin", clazz.name, clazz)
    /\ UNCHANGED <<run, first, subs>>

register_plugin(clazz) ==
    /\ IF clazz.name \in DOMAIN registry
       THEN /\ call' = Raised("register_plugin", clazz.name, "ValueError")
            /\ UNCHANGED registry
       ELSE /\ registry' = (clazz.name :> clazz) @@ registry
            /\ call' = Returned("register_plugin", clazz.name, clazz)
    /\ UNCHANGED <<run, first, subs>>

(* The importing modules register their classes; no experiment is built. *)
InitRegistry == raw = <<>> /\ Start /\ subs = NoSubs

NextRegistry == \E clazz \in Plugins : register_plugin(clazz)

RegistrySpec == InitRegistry /\ [][NextRegistry]_vars

(***************************************************************************)
(* The map-like methods, lines 276-306.  Python runs one thing at a time:  *)
(* code outside __init__ calls the object either from a constructor that   *)
(* line 263 is executing, when that constructor or an earlier one was      *)
(* given the object as experiment_config, or after __init__ has returned,  *)
(* or after it has raised when a constructor kept the object.              *)
(***************************************************************************)
MaxFacadeEntries == 2

Leaked == \E k \in DOMAIN built : \E arg \in DOMAIN built[k].src : built[k].src[arg] = "self"

InConstructor ==
    /\ InFor
    /\ ItemError(config[idx].val) = "none"
    /\ Ready(ItemBindings(config[idx].val), ItemSpec(config[idx].val))

HoldsSelf ==
    \E arg \in DOMAIN ItemBindings(config[idx].val) :
        ItemBindings(config[idx].val)[arg].src = "self"

Holder ==
    \/ pc = "done"
    \/ pc = "raised" /\ Leaked
    \/ InConstructor /\ (HoldsSelf \/ Leaked)

(* Mutant of check_init: the test looks at the entries resolved so far. *)
check_init_LooksAtResolved == experiment = <<>>

(* _check_init raises. *)
check_init == selfExperiment.isNone

FacadeKeys == {KeyA, KeyB}

KeysOf(d) == PyList([n \in 1..Len(d) |-> PyStr(d[n].key)])

ValuesOf(d) == PyList([n \in 1..Len(d) |-> d[n].val])

ItemsOf(d) == PyList([n \in 1..Len(d) |-> PyList(<<PyStr(d[n].key), d[n].val>>)])

(* What a read of the published dict gives once _check_init has passed;    *)
(* before line 180 the attribute is None and the dict is the local one.    *)
Published == IF selfExperiment.isNone THEN experiment ELSE selfExperiment.dict

GetItem(item) ==
    /\ Holder
    /\ call' = IF check_init THEN Raised("getitem", item, "ValueError")
               ELSE IF DictHas(Published, item)
                    THEN Returned("getitem", item, DictGet(Published, item))
                    ELSE Raised("getitem", item, "KeyError")
    /\ UNCHANGED <<run, registry, first, subs>>

Get(item, default) ==
    /\ Holder
    /\ call' = IF check_init THEN Raised("get", item, "ValueError")
               ELSE IF DictHas(Published, item)
                    THEN Returned("get", item, DictGet(Published, item))
                    ELSE Returned("get", item, default)
    /\ UNCHANGED <<run, registry, first, subs>>

Iter ==
    /\ Holder
    /\ call' = IF check_init THEN Raised("iter", <<>>, "ValueError")
               ELSE Returned("iter", <<>>, KeysOf(Published))
    /\ UNCHANGED <<run, registry, first, subs>>

Items ==
    /\ Holder
    /\ call' = IF check_init THEN Raised("items", <<>>, "ValueError")
               ELSE Returned("items", <<>>, ItemsOf(Published))
    /\ UNCHANGED <<run, registry, first, subs>>

Values ==
    /\ Holder
    /\ call' = IF check_init THEN Raised("values", <<>>, "ValueError")
               ELSE Returned("values", <<>>, ValuesOf(Published))
    /\ UNCHANGED <<run, registry, first, subs>>

Keys ==
    /\ Holder
    /\ call' = IF check_init THEN Raised("keys", <<>>, "ValueError")
               ELSE Returned("keys", <<>>, KeysOf(Published))
    /\ UNCHANGED <<run, registry, first, subs>>

(* Mutant of SetItem: the assignment reaches the dict once it is there. *)
SetItem_Writes(key, value) ==
    /\ Holder
    /\ call' = IF check_init THEN Raised("setitem", key, "ValueError")
               ELSE Returned("setitem", key, PyNone)
    /\ experiment' = IF check_init THEN experiment ELSE DictSet(experiment, key, value)
    /\ selfExperiment' = IF check_init THEN selfExperiment
                         ELSE [selfExperiment EXCEPT !.dict = DictSet(experiment, key, value)]
    /\ UNCHANGED <<raw, pc, mode, config, factories, idx, configured, unconfigured,
                   error, items, built, pass_i, calls, thrown, registry, first, subs>>

(* __setitem__ *)
SetItem(key, value) ==
    /\ Holder
    /\ call' = Raised("setitem", key, "ValueError")
    /\ UNCHANGED <<run, registry, first, subs>>

InitFacade ==
    /\ raw \in UNION { ConfigsOfLen(n) : n \in 0..MaxFacadeEntries }
    /\ Start
    /\ subs = NoSubs

NextFacade ==
    \/ Next
    \/ \E item \in FacadeKeys : GetItem(item)
    \/ \E item \in FacadeKeys : Get(item, PyNone)
    \/ Iter
    \/ Items
    \/ Values
    \/ Keys
    \/ \E key \in FacadeKeys : SetItem(key, PyNum("0"))

FacadeSpec == InitFacade /\ [][NextFacade]_vars

(***************************************************************************)
(* Two ExperimentConfig objects built one after the other from the same    *)
(* configuration, with the same registry and the same env: once the first  *)
(* __init__ has returned or raised, with constructors that returned, the   *)
(* second starts from the same input.                                      *)
(***************************************************************************)
MaxRerunEntries == 2

Again ==
    /\ pc \in {"done", "raised"}
    /\ thrown = {}
    /\ ~first.ran
    /\ first' = [ran |-> TRUE, pc |-> pc, error |-> error, items |-> items,
                 experiment |-> experiment, factories |-> factories]
    /\ pc' = "init"
    /\ mode' = 0
    /\ config' = raw
    /\ experiment' = <<>>
    /\ factories' = <<>>
    /\ idx' = 0
    /\ configured' = {}
    /\ unconfigured' = <<>>
    /\ error' = "none"
    /\ items' = <<>>
    /\ selfExperiment' = NoSelfExperiment
    /\ built' = <<>>
    /\ pass_i' = 1
    /\ calls' = <<>>
    /\ UNCHANGED <<raw, thrown, registry, call, subs>>

InitRerun ==
    /\ raw \in UNION { ConfigsOfLen(n) : n \in 0..MaxRerunEntries }
    /\ Start
    /\ subs = NoSubs

NextRerun == Next \/ Again

RerunSpec == InitRerun /\ [][NextRerun]_vars

(***************************************************************************)
(* do_env_subs on its own, lines 114-125: one scalar and one env drawn     *)
(* from small sets.  The keys are non-empty strings over two letters, the  *)
(* values may contain a letter of the keys, and the env holds two keys in  *)
(* either order of declaration.                                            *)
(***************************************************************************)
MaxStrLen == 3

MaxKeyLen == 2

MaxValLen == 1

Strings(alphabet, n) == UNION {[1..m -> alphabet] : m \in 0..n}

EnvKeys == Strings({"D", "R"}, MaxKeyLen) \ {<<>>}

EnvVals == Strings({"D", "x"}, MaxValLen)

Envs ==
    { e \in { << [key |-> k1, val |-> v1], [key |-> k2, val |-> v2] >> :
                k1 \in EnvKeys, k2 \in EnvKeys, v1 \in EnvVals, v2 \in EnvVals } :
        e[1].key # e[2].key }

Scalars == {PyStr(s) : s \in Strings({"D", "R"}, MaxStrLen)} \cup {PyNum("5"), PyNone}

ApplyEnvSubs ==
    /\ ~subs.applied
    /\ subs' = [subs EXCEPT !.out = do_env_subs(subs.env, subs.v), !.applied = TRUE]
    /\ UNCHANGED <<run, registry, call, first>>

InitEnv ==
    /\ raw = <<>>
    /\ Start
    /\ subs \in {[env |-> e, v |-> v, out |-> PyNone, applied |-> FALSE] :
                   e \in Envs, v \in Scalars}

NextEnv == ApplyEnvSubs

EnvSpec == InitEnv /\ [][NextEnv]_vars

(***************************************************************************)
(* Vocabulary of the properties.                                           *)
(***************************************************************************)
Terminated == pc \in {"done", "raised"}

RawKeys == DictKeys(raw)

Pending == DictKeys(config)

Resolved == DictKeys(experiment)

(* The descriptors of the configuration: what classification leaves. *)
Descriptors(cfg) == {k \in DictKeys(cfg) : ~IsSimple(DictGet(cfg, k)) /\ ~IsSimpleList(DictGet(cfg, k))}

WellFormed(cfg) == \A k \in Descriptors(cfg) : ItemError(DictGet(cfg, k)) = "none"

ArgSet(v) == {CtorArgs(ItemSpec(v))[i] : i \in 1..Len(CtorArgs(ItemSpec(v)))}

AliasKeys(alias) ==
    IF isinstance(alias, "list") THEN {alias.elems[i].s : i \in 1..Len(alias.elems)}
    ELSE {alias.s}

(* The keys a parameter of descriptor v waits for when only required       *)
(* (non-defaultable) parameters count as dependencies.                     *)
RequiredDeps(v, arg) ==
    IF arg \in DOMAIN literal_params(v) \/ arg = experiment_config
       \/ arg \in DOMAIN default_params(ItemSpec(v)) THEN {}
    ELSE IF arg \in DOMAIN named_params(v) THEN AliasKeys(named_params(v)[arg])
    ELSE {arg}

(* The keys a parameter of v can only be supplied from: the keys of its    *)
(* alias when it declares one, defaultable or not, else its own name when  *)
(* it has no default.                                                      *)
KeyDeps(v, arg) ==
    IF arg \in DOMAIN literal_params(v) \/ arg = experiment_config THEN {}
    ELSE IF arg \in DOMAIN named_params(v) THEN AliasKeys(named_params(v)[arg])
    ELSE IF arg \in DOMAIN default_params(ItemSpec(v)) THEN {}
    ELSE {arg}

(* Every key a descriptor refers to, by alias or by a required name. *)
References(v) ==
    UNION {IF arg \in DOMAIN literal_params(v) THEN {}
           ELSE IF arg \in DOMAIN named_params(v) THEN AliasKeys(named_params(v)[arg])
           ELSE RequiredDeps(v, arg) : arg \in ArgSet(v)}

Closed(cfg) == \A k \in Descriptors(cfg) : References(DictGet(cfg, k)) \subseteq DictKeys(cfg)

(* The keys reachable in dependency order: the least set that holds the    *)
(* simple entries and every descriptor whose dependencies it holds.        *)
RECURSIVE Buildable(_, _, _)
Buildable(cfg, Deps(_, _), R) ==
    LET more == {k \in Descriptors(cfg) \ R :
                    \A arg \in ArgSet(DictGet(cfg, k)) : Deps(DictGet(cfg, k), arg) \subseteq R}
    IN  IF more = {} THEN R ELSE Buildable(cfg, Deps, R \cup more)

SimpleKeys(cfg) == DictKeys(cfg) \ Descriptors(cfg)

(* No dependency cycle among required parameters, every reference named. *)
AcyclicRequired(cfg) ==
    /\ WellFormed(cfg)
    /\ Closed(cfg)
    /\ Buildable(cfg, RequiredDeps, SimpleKeys(cfg)) = DictKeys(cfg)

AcyclicKeyDeps(cfg) ==
    /\ WellFormed(cfg)
    /\ Buildable(cfg, KeyDeps, SimpleKeys(cfg)) = DictKeys(cfg)

ConstructorsReturn == thrown = {}

(* C1 as claimed: every well-formed configuration whose references all     *)
(* name keys and whose required (non-defaultable) parameters form no       *)
(* dependency cycle ends with zero pending descriptors, in every order.    *)
C1_AcyclicRequiredResolves ==
    (Terminated /\ ConstructorsReturn /\ AcyclicRequired(raw)) => (pc = "done" /\ Pending = {})

(* C1 amended: a run whose constructors return ends with zero pending      *)
(* descriptors exactly when the configuration is well formed and has no    *)
(* cycle and no missing key among the parameters that can only come from a *)
(* key (required ones, and aliased ones even when they have a default).    *)
(* The right-hand side does not mention the declaration order, so whether  *)
(* a run resolves every key never depends on it.                           *)
C1_OrderIndependentSuccess ==
    (Terminated /\ ConstructorsReturn) =>
        ((pc = "done" /\ Pending = {}) <=> AcyclicKeyDeps(raw))

(* A run resolved three entries declared with a forward reference. *)
C1_Witness ==
    /\ pc = "done"
    /\ Len(raw) = 3
    /\ \E k \in DOMAIN built : built[k].tier = 2
    /\ \E i, j \in 1..Len(raw) :
          /\ i < j
          /\ raw[i].key \in DOMAIN built
          /\ raw[j].key \in UNION {KeyDeps(raw[i].val, arg) : arg \in ArgSet(raw[i].val)}

(***************************************************************************)
(* built[k] records, for the descriptor constructed at key k, the mode of  *)
(* the call that constructed it, the branch of lines 231-260 that supplied *)
(* each argument, and the resolved and pending keys at that moment.        *)
(***************************************************************************)
RawVal(k) == DictGet(raw, k)

DefaultFilled(k) == {arg \in DOMAIN built[k].src : built[k].src[arg] = "default"}

(* C2: in tier 0 no argument is filled from a default, and in tier 1 only  *)
(* an argument whose name is not a key of the original configuration.      *)
C2_NoDefaultOverConfigKey ==
    \A k \in DOMAIN built :
        /\ built[k].tier = 0 => DefaultFilled(k) = {}
        /\ built[k].tier = 1 => DefaultFilled(k) \cap RawKeys = {}

(* A descriptor was constructed in tier 1 from a default, in a            *)
(* configuration that also holds other descriptors.                        *)
C2_Witness ==
    \E k \in DOMAIN built :
        /\ built[k].tier = 1
        /\ DefaultFilled(k) # {}
        /\ Cardinality(Descriptors(raw)) >= 2

(* C3 as claimed: when a descriptor is constructed in tier 2 with p filled *)
(* from the default while p is a descriptor key of the configuration, key  *)
(* p is never resolved in the run.                                         *)
C3_DefaultOnlyIfKeyNeverResolves ==
    \A k \in DOMAIN built :
        built[k].tier = 2 =>
            \A arg \in DefaultFilled(k) \cap Descriptors(raw) : arg \notin Resolved

(* C3 amended: a default is used only for a key that is not resolved at    *)
(* the moment of the construction; a resolved key always wins over the     *)
(* default of the same name.  The key may still be resolved afterwards.    *)
C3_DefaultOnlyIfKeyUnresolvedThen ==
    \A k \in DOMAIN built :
        built[k].tier = 2 => DefaultFilled(k) \cap built[k].resolved = {}

(* Tier 2 filled a default for a parameter named like a pending            *)
(* descriptor, and another descriptor took a resolved key directly.        *)
C3_Witness ==
    /\ \E k \in DOMAIN built :
          built[k].tier = 2 /\ DefaultFilled(k) \cap Descriptors(raw) # {}
    /\ \E k \in DOMAIN built :
          /\ built[k].tier = 2
          /\ \E arg \in DOMAIN built[k].src :
                /\ built[k].src[arg] = "direct"
                /\ arg \in DOMAIN default_params(ItemSpec(RawVal(k)))

InTier2Pass ==
    /\ mode = LastMode
    /\ pc = "for" \/ (pc = "raised" /\ error = "UnconfiguredItems")

HasDefault(k, arg) == arg \in DOMAIN default_params(ItemSpec(RawVal(k)))

DeclaresAlias(k, arg) ==
    arg \in DOMAIN named_params(RawVal(k)) /\ arg \notin DOMAIN literal_params(RawVal(k))

(* C4 as claimed: in tier 2 a parameter that has a default is never left   *)
(* missing, an unresolved alias included, so a descriptor stays pending    *)
(* only for parameters without a default.                                  *)
C4_Tier2DefaultUnconditional ==
    InTier2Pass =>
        \A k \in DOMAIN unconfigured : \A arg \in unconfigured[k] : ~HasDefault(k, arg)

(* C4 amended: in tier 2 the default fills every parameter that has one,   *)
(* declares no alias, has no literal override and no resolved key of its   *)
(* name and is not the self-reference; a parameter that declares an alias, *)
(* single or list, is never filled from its default and is missing while   *)
(* the alias is unresolved.                                                *)
C4_Tier2DefaultUnlessAliased ==
    /\ InTier2Pass =>
          \A k \in DOMAIN unconfigured : \A arg \in unconfigured[k] :
              ~HasDefault(k, arg) \/ DeclaresAlias(k, arg)
    /\ \A k \in DOMAIN built :
          built[k].tier = LastMode =>
              \A arg \in DOMAIN built[k].src :
                  /\ built[k].src[arg] = "default" => ~DeclaresAlias(k, arg)
                  /\ (/\ HasDefault(k, arg)
                      /\ arg # experiment_config
                      /\ arg \notin DOMAIN named_params(RawVal(k))
                      /\ arg \notin DOMAIN literal_params(RawVal(k))
                      /\ arg \notin built[k].resolved)
                     => /\ built[k].src[arg] = "default"
                        /\ factories[k].kwargs[arg] = Default(ItemSpec(RawVal(k)).name, arg)

(* A tier-2 pass constructed one descriptor from a default and left        *)
(* another pending on a defaultable parameter whose alias is unresolved.   *)
C4_Witness ==
    /\ InTier2Pass
    /\ \E k \in DOMAIN built : built[k].tier = LastMode /\ DefaultFilled(k) # {}
    /\ \E k \in DOMAIN unconfigured : \E arg \in unconfigured[k] :
          HasDefault(k, arg) /\ DeclaresAlias(k, arg)

(* C5: a constructor parameter named experiment_config that has no literal *)
(* override is always bound to the resolver itself, whatever alias, key of *)
(* the same name or default is also available.                             *)
C5_SelfReferenceWins ==
    \A k \in DOMAIN built :
        (/\ experiment_config \in DOMAIN built[k].src
         /\ experiment_config \notin DOMAIN literal_params(RawVal(k)))
        => /\ built[k].src[experiment_config] = "self"
           /\ factories[k].kwargs[experiment_config] = SELF

LiteralArgs(k) == DOMAIN literal_params(RawVal(k)) \cap DOMAIN built[k].src

(* C6: a literal override supplies its parameter verbatim in every tier,   *)
(* whatever alias, same-named key, default or self-reference exists.       *)
C6_LiteralOverrideVerbatim ==
    \A k \in DOMAIN built : \A arg \in LiteralArgs(k) :
        /\ factories[k].kwargs[arg] = RawVal(k).fields[Lit(arg)]
        /\ factories[k].param2config_key[arg] = PyNone
        /\ built[k].src[arg] = "literal"

(* A literal override won over a resolved alias and a resolved key of the  *)
(* parameter's name, and another one over the self-reference.              *)
C6_Witness ==
    \E k \in DOMAIN built : \E arg \in LiteralArgs(k) :
        /\ arg \in DOMAIN named_params(RawVal(k))
        /\ AliasKeys(named_params(RawVal(k))[arg]) \subseteq built[k].resolved
        /\ arg \in built[k].resolved

ListAliased(k) ==
    {arg \in DOMAIN built[k].src :
        arg \in DOMAIN named_params(RawVal(k)) /\ isinstance(named_params(RawVal(k))[arg], "list")}

ListAliasKeys(k, arg) == named_params(RawVal(k))[arg].elems

ListAliasValues(k, arg) ==
    [i \in 1..Len(ListAliasKeys(k, arg)) |-> DictGet(experiment, ListAliasKeys(k, arg)[i].s)]

(* C7 as claimed: a descriptor with a list-alias parameter is constructed  *)
(* only when every key of the list is resolved, and the parameter then     *)
(* holds the resolved values in the order of the list.                     *)
C7_ListAliasAllOrPending ==
    \A k \in DOMAIN built : \A arg \in ListAliased(k) :
        /\ AliasKeys(named_params(RawVal(k))[arg]) \subseteq built[k].resolved
        /\ factories[k].kwargs[arg] = PyList(ListAliasValues(k, arg))

(* C7 amended: a list alias supplies a parameter (one with no literal      *)
(* override, other than the reserved experiment_config) only when every    *)
(* key of the list is resolved, and then with the resolved values in list  *)
(* order; with a key unresolved that parameter is not supplied and the     *)
(* descriptor stays pending.  A parameter named experiment_config stays    *)
(* bound to the resolver while its list alias is unresolved, so it does    *)
(* not keep the descriptor pending.                                        *)
C7_ListAliasAllOrSelf ==
    \A k \in DOMAIN built : \A arg \in ListAliased(k) \ DOMAIN literal_params(RawVal(k)) :
        IF arg # experiment_config
        THEN /\ AliasKeys(named_params(RawVal(k))[arg]) \subseteq built[k].resolved
             /\ built[k].src[arg] = "list_alias"
             /\ factories[k].kwargs[arg] = PyList(ListAliasValues(k, arg))
             /\ factories[k].param2config_key[arg] = named_params(RawVal(k))[arg]
        ELSE ~(AliasKeys(named_params(RawVal(k))[arg]) \subseteq built[k].resolved)
             => /\ built[k].src[arg] = "self"
                /\ factories[k].kwargs[arg] = SELF

(* A list alias of two different keys was supplied, the second of them a   *)
(* descriptor constructed in the same run.                                 *)
C7_Witness ==
    \E k \in DOMAIN built : \E arg \in ListAliased(k) :
        /\ arg # experiment_config
        /\ built[k].src[arg] = "list_alias"
        /\ Len(ListAliasKeys(k, arg)) = 2
        /\ ListAliasKeys(k, arg)[1] # ListAliasKeys(k, arg)[2]
        /\ ListAliasKeys(k, arg)[2].s \in DOMAIN built

(* The parameters of pending descriptor k that no source supplies in the   *)
(* state: no literal, no self-reference, the alias (when declared) not     *)
(* resolved, else no resolved key of the name and no default.              *)
Unsupplied(k) ==
    {arg \in ArgSet(DictGet(config, k)) :
        /\ arg \notin DOMAIN literal_params(DictGet(config, k))
        /\ arg # experiment_config
        /\ IF arg \in DOMAIN named_params(DictGet(config, k))
           THEN ~(AliasKeys(named_params(DictGet(config, k))[arg]) \subseteq Resolved)
           ELSE arg \notin Resolved
                /\ arg \notin DOMAIN default_params(ItemSpec(DictGet(config, k)))}

(* C8: UnconfiguredItems is raised after tier 2 only, and its items map    *)
(* lists exactly the pending descriptors, each with exactly its            *)
(* unsupplied parameters, a non-empty set.                                 *)
C8_ReportCoversPending ==
    (pc = "raised" /\ error = "UnconfiguredItems") =>
        /\ mode = LastMode
        /\ DOMAIN items = Pending
        /\ Pending = RawKeys \ Resolved
        /\ \A k \in Pending : items[k] # {} /\ items[k] = Unsupplied(k)

(* A run failed with two descriptors pending after others were resolved. *)
C8_Witness ==
    /\ pc = "raised"
    /\ error = "UnconfiguredItems"
    /\ Cardinality(DOMAIN items) = 2
    /\ built # <<>>

Malformed(cfg) ==
    {k \in Descriptors(cfg) : ItemError(DictGet(cfg, k)) \in {"must_be_dict", "no_name"}}

Position(cfg, k) == CHOOSE i \in 1..Len(cfg) : cfg[i].key = k

ConstructorInvoked == calls # <<>>

(* C9 as claimed: with a malformed entry in the configuration the run      *)
(* fails with the configuration error and no constructor is invoked,       *)
(* whatever the order of the keys.                                         *)
C9_MalformedBeforeAnyConstruction ==
    Malformed(raw) # {} =>
        /\ ~ConstructorInvoked
        /\ Terminated => error \in {"must_be_dict", "no_name", "not_registered",
                                     "string_required"}

(* C9 amended: with a malformed entry the run never completes; no tier     *)
(* gets past its first pass, which ends at the first entry that raises.  A *)
(* descriptor declared before the malformed entry may have been            *)
(* constructed by then; none declared after it ever is.  The run fails in  *)
(* tier 0 unless a constructor raised an exception that lines 159 and 165  *)
(* catch.                                                                  *)
C9_MalformedFailsFirstPass ==
    Malformed(raw) # {} =>
        /\ pc # "done"
        /\ pass_i <= 2
        /\ pc = "for" => \A i \in 1..Min(idx - 1, Len(config)) : ItemError(config[i].val) = "none"
        /\ Terminated => error \in {"must_be_dict", "no_name", "not_registered",
                                     "string_required", "constructor"}
        /\ \A k \in DOMAIN built : \A m \in Malformed(raw) :
              Position(raw, k) < Position(raw, m)
        /\ mode = 0 \/ thrown # {}
        /\ \A k \in DOMAIN built : built[k].tier = 0 \/ thrown # {}

(* A run raised the malformed-entry error after it had constructed a       *)
(* descriptor declared earlier.                                            *)
C9_Witness ==
    /\ pc = "raised"
    /\ error \in {"must_be_dict", "no_name"}
    /\ built # <<>>
    /\ Len(raw) = 3

Unregistered(cfg) == {k \in Descriptors(cfg) : ItemError(DictGet(cfg, k)) = "not_registered"}

(* C10: a descriptor whose _name is not registered is fatal.  The pass     *)
(* that reaches it raises the unknown-type error there; the error is not   *)
(* caught to escalate (the run leaves tier 0 only when a constructor raised *)
(* before the pass reached the descriptor, and no tier gets past its first *)
(* pass), the run never reports UnconfiguredItems and never completes.     *)
C10_UnknownTypeFatal ==
    Unregistered(raw) # {} =>
        /\ pc # "done"
        /\ mode = 0 \/ thrown # {}
        /\ pass_i <= 2
        /\ error # "UnconfiguredItems"
        /\ pc = "for" => \A i \in 1..Min(idx - 1, Len(config)) : config[i].key \notin Unregistered(raw)
        /\ error = "not_registered" => pc = "raised" /\ config[idx].key \in Unregistered(raw)
        /\ (pc = "raised" /\ config[idx].key \in Unregistered(raw)) => error = "not_registered"

(* A run raised the unknown-type error for its third entry, after two     *)
(* earlier descriptors were visited.                                       *)
C10_Witness ==
    /\ pc = "raised"
    /\ error = "not_registered"
    /\ idx = 3
    /\ built # <<>>
    /\ unconfigured # <<>>

(***************************************************************************)
(* C11 as claimed: once a constructor has raised, in whatever tier, the    *)
(* run is over with that failure: the resolver is in the raised state with *)
(* the constructor's error, the failing item was not reported as           *)
(* unconfigured, and no constructor of the run was invoked a second time.  *)
(* The code does this unless the exception is an                           *)
(* UnconfiguredItemsException raised in mode 0 or 1.                       *)
(***************************************************************************)
C11_ConstructorFailureAborts ==
    thrown # {} =>
        /\ pc = "raised"
        /\ error = "constructor"
        /\ items = <<>>
        /\ \A k \in thrown : k \notin DOMAIN unconfigured
        /\ \A k \in DOMAIN calls : calls[k] = 1

(***************************************************************************)
(* C12.  Registration never removes or replaces an entry of the registry:  *)
(* a call of register_plugin with a name that is present, the names of     *)
(* CLASSES included, raises ValueError and leaves the registry as it was;  *)
(* a call with a new name adds exactly that name with the class given.  So *)
(* every name keeps the class of its first successful registration.        *)
(***************************************************************************)
C12_RegistrationIrreversible ==
    /\ [](\A n \in DOMAIN CLASSES : n \in DOMAIN registry /\ registry[n] = CLASSES[n])
    /\ [][\A n \in DOMAIN registry : n \in DOMAIN registry' /\ registry'[n] = registry[n]]_vars
    /\ [][call'.op = "register_plugin" =>
             IF call'.key \in DOMAIN registry
             THEN call'.result = "ValueError" /\ registry' = registry
             ELSE /\ call'.result = "returned"
                  /\ DOMAIN registry' = DOMAIN registry \cup {call'.key}
                  /\ registry'[call'.key] = call'.value]_vars

(* A class was registered under a new name, and a later call offering      *)
(* another class under a registered name was refused.                      *)
C12_Witness ==
    /\ call.op = "register_plugin"
    /\ call.result = "ValueError"
    /\ call.key \notin DOMAIN CLASSES
    /\ \E c \in Plugins : c.name = call.key /\ registry[call.key] # c
    /\ Cardinality(DOMAIN registry) >= Cardinality(DOMAIN CLASSES) + 2

(***************************************************************************)
(* C13.  Item assignment never succeeds and never writes: whoever calls    *)
(* __setitem__, with a key that is resolved or one that is not, during the *)
(* run or after it, gets the "cannot update experiment!" ValueError, and   *)
(* the resolved entries, the published dict and the factories are the same *)
(* after the call as before.                                               *)
(***************************************************************************)
C13_SetItemReadOnly ==
    /\ [](call.op = "setitem" => call.result = "ValueError")
    /\ [][(call' # call /\ call'.op = "setitem") =>
                /\ experiment' = experiment
                /\ selfExperiment' = selfExperiment
                /\ factories' = factories]_vars

(* An assignment to a resolved key was refused after the run completed. *)
C13_Witness ==
    /\ call.op = "setitem"
    /\ call.result = "ValueError"
    /\ pc = "done"
    /\ call.key \in DictKeys(selfExperiment.dict)
    /\ call.key \in DOMAIN factories

ReadOps == {"getitem", "get", "iter", "items", "values", "keys"}

(***************************************************************************)
(* C14.  A read through a map-like method made before __init__ has reached *)
(* line 180 raises the "not setup yet" ValueError, whoever makes it: a     *)
(* constructor that was given the object reads nothing, not even keys that *)
(* are resolved by then.  A read gets past _check_init only in a run that  *)
(* went through the three tiers and left nothing pending.                  *)
(***************************************************************************)
C14_ReadsOnlyAfterCompletion ==
    /\ []((call.op \in ReadOps /\ call.result # "ValueError") =>
            /\ pc = "done"
            /\ mode = LastMode
            /\ config = <<>>
            /\ error = "none")
    /\ [][(call' # call /\ call'.op \in ReadOps) =>
                IF pc = "done"
                THEN call'.result \in {"returned", "KeyError"}
                ELSE call'.result = "ValueError"]_vars

(* A constructor holding the object asked for a key that was resolved      *)
(* already, and was refused.                                               *)
C14_Witness ==
    /\ call.op = "getitem"
    /\ call.result = "ValueError"
    /\ InConstructor
    /\ HoldsSelf
    /\ ~Leaked
    /\ call.key \in DictKeys(experiment)

C16_ResolvedPendingDisjoint == Resolved \cap Pending = {}

(***************************************************************************)
(* C16 amended: after classification every key of the configuration is in  *)
(* experiment or in config, and a key in both is a descriptor whose        *)
(* constructor was invoked.  When no constructor has raised, the keys in   *)
(* both are, inside a scan, exactly the descriptors that scan has          *)
(* constructed so far (they leave config together at the end of the scan,  *)
(* lines 269-271) and, between scans and once __init__ has returned, none. *)
(***************************************************************************)
C16_DisjointBetweenScans ==
    pc # "init" =>
        /\ Resolved \cup Pending = RawKeys
        /\ Resolved \cap Pending \subseteq DOMAIN calls
        /\ thrown = {} =>
              Resolved \cap Pending =
                  (IF pc = "for" \/ (pc = "raised" /\ error # "UnconfiguredItems")
                   THEN configured ELSE {})

(* Inside a scan, a descriptor was constructed and the scan goes on to the *)
(* next item with the key in both dicts.                                   *)
C16_Witness ==
    /\ InFor
    /\ thrown = {}
    /\ Resolved \cap Pending # {}
    /\ config[idx].key \notin Resolved

(***************************************************************************)
(* C17.  The mode only ever goes from 0 to 1 to 2, and the next mode       *)
(* starts with the config and experiment the previous one left.  A scan of *)
(* mode 0 or 1 that configured nothing is followed by the next mode, not   *)
(* by an error; the UnconfiguredItems error leaves __init__ only from a    *)
(* scan of mode 2 that configured nothing.  Once config is empty no scan   *)
(* starts and no constructor is invoked in the modes that remain.          *)
(***************************************************************************)
C17_TierEscalation ==
    /\ [](error = "UnconfiguredItems" =>
             /\ pc = "raised"
             /\ mode = LastMode
             /\ configured = {}
             /\ config # <<>>)
    /\ [][/\ mode' \in {mode, mode + 1}
          /\ mode' # mode => (config' = config /\ experiment' = experiment
                               /\ pc' = "while" /\ error' = "none")
          /\ (ForDone /\ configured = {} /\ mode < LastMode) => mode' = mode + 1
          /\ (pc # "init" /\ config = <<>>) =>
                (pc' \in {"while", "done"} /\ config' = <<>>
                 /\ experiment' = experiment /\ calls' = calls)]_vars

(* Modes 0 and 1 each ended in a scan that configured nothing, no          *)
(* constructor having raised, and mode 2 scans what they left, which       *)
(* includes a descriptor constructed in mode 0.                            *)
C17_Witness ==
    /\ mode = LastMode
    /\ InFor
    /\ thrown = {}
    /\ \E k \in DOMAIN built : built[k].tier = 0

(* The descriptors pending when the current mode was entered, in a run     *)
(* whose constructors returned: those no earlier mode constructed.         *)
PendingAtEntry ==
    Cardinality(Descriptors(raw)) - Cardinality({k \in DOMAIN built : built[k].tier < mode})

(* A variant of the run: the modes left, then the pending descriptors,     *)
(* then the items left in the scan.                                        *)
Measure ==
    LET N == Len(raw)
        B == N + 3
        A == (N + 1) * B
    IN  IF Terminated THEN 0
        ELSE IF pc = "init" THEN (LastMode + 1) * A + 1
        ELSE (LastMode - mode) * A + Len(config) * B + 1
             + (IF pc = "while" THEN N + 2 ELSE Len(config) + 1 - idx)

(* The guards of the actions of Next: the statement the run is at has a    *)
(* successor.  Inside the for loop the item raises, is constructed or is   *)
(* recorded as unconfigured, whatever it is.                               *)
CanStep ==
    \/ pc = "init"
    \/ pc = "while" /\ (config # <<>> \/ mode < LastMode \/ mode = LastMode)
    \/ InFor
    \/ ForDone /\ configured # {}
    \/ ForDone /\ config # <<>> /\ (mode < LastMode \/ mode = LastMode)

(***************************************************************************)
(* C18.  A scan that went through every pending descriptor either          *)
(* configured one at least, and then config is strictly smaller when the   *)
(* next scan of the same mode starts, or configured none, and then the     *)
(* mode ends.  With constructors that return, a mode entered with n        *)
(* pending descriptors starts at most n scans.  Every step of a run        *)
(* decreases the variant and a run that is not over is at a statement that *)
(* has a successor, so every run ends, completed or with an error.         *)
(***************************************************************************)
C18_TiersTerminate ==
    /\ [](thrown = {} => pass_i - 1 <= PendingAtEntry)
    /\ [](Terminated \/ CanStep)
    /\ [](pc = "done" => (Pending = {} /\ Resolved = RawKeys))
    /\ [](pc = "raised" => error # "none")
    /\ [][Measure' < Measure]_vars
    /\ [][(ForDone /\ configured # {}) =>
             (mode' = mode /\ pc' = "while" /\ Len(config') < Len(config))]_vars
    /\ [][(ForDone /\ configured = {}) =>
             (pc' = "raised" \/ (mode' = mode + 1 /\ pass_i' = 1))]_vars

(* A mode entered with two pending descriptors has resolved them in two    *)
(* scans, the first of which left one pending.                             *)
C18_Witness ==
    /\ pc = "while"
    /\ thrown = {}
    /\ PendingAtEntry = 2
    /\ pass_i = 3
    /\ config = <<>>

(* The parameters of the constructed descriptors, and for each the branch  *)
(* that supplied it and the entry of param2config_key.                     *)
BuiltParams == UNION {{<<k, arg>> : arg \in DOMAIN built[k].src} : k \in DOMAIN built}

Kind(ka) == built[ka[1]].src[ka[2]]

Record(ka) == factories[ka[1]].param2config_key[ka[2]]

(***************************************************************************)
(* C19 as claimed: the entry of param2config_key tells which of the six    *)
(* kinds of source supplied the parameter, so two parameters supplied by   *)
(* different kinds never have the same entry.                              *)
(***************************************************************************)
C19_RecordIdentifiesKind ==
    \A p1, p2 \in BuiltParams : Record(p1) = Record(p2) => Kind(p1) = Kind(p2)

(***************************************************************************)
(* C19 amended: the entry is the configuration key the parameter is tied   *)
(* to, not the kind of source.  It is None exactly for a literal override  *)
(* and for a constructor default; otherwise it is the alias the descriptor *)
(* declares for the parameter, a string or a list as declared, and with no *)
(* alias the name of the parameter itself, which is what both a direct key *)
(* match and the self-reference record.                                    *)
(***************************************************************************)
C19_RecordIsConfigKey ==
    \A pa \in BuiltParams :
        LET v   == RawVal(pa[1])
            arg == pa[2]
        IN  /\ Record(pa) = PyNone <=> Kind(pa) \in {"literal", "default"}
            /\ Kind(pa) \in {"alias", "list_alias", "direct", "self"} =>
                  Record(pa) = (IF arg \in DOMAIN named_params(v)
                                THEN named_params(v)[arg] ELSE PyStr(arg))
            /\ Kind(pa) = "list_alias" => isinstance(Record(pa), "list")
            /\ Kind(pa) = "alias" => isinstance(Record(pa), "str")
            /\ Kind(pa) = "direct" => arg \notin DOMAIN named_params(v)

(* One run supplied a parameter from a literal override and another from a *)
(* constructor default, and recorded None for both.                        *)
C19_Witness ==
    \E p1, p2 \in BuiltParams :
        /\ Kind(p1) = "literal"
        /\ Kind(p2) = "default"
        /\ Record(p1) = PyNone
        /\ Record(p2) = PyNone

(* s[i..] without its first n characters. *)
Drop(s, n) == SubSeq(s, n + 1, Len(s))

(* The substitution the keys call for when each occurrence is replaced     *)
(* once: at every position, from left to right, the first key of keys that *)
(* matches there is replaced by its value and the scan resumes after the   *)
(* occurrence.                                                             *)
RECURSIVE OneScan(_, _, _)
OneScan(s, keys, env) ==
    IF s = <<>> THEN <<>>
    ELSE LET hits == {n \in 1..Len(keys) : StartsWith(s, 1, keys[n])}
         IN  IF hits = {} THEN <<Head(s)>> \o OneScan(Tail(s), keys, env)
             ELSE LET k == keys[CHOOSE n \in hits : \A m \in hits : n <= m]
                  IN  DictGet(env, k) \o OneScan(Drop(s, Len(k)), keys, env)

ProperPrefix(short, long) ==
    Len(short) < Len(long) /\ SubSeq(long, 1, Len(short)) = short

(***************************************************************************)
(* C20 as claimed: when one key of the env is a proper prefix of the       *)
(* other, the result for a string is the string with every occurrence of   *)
(* the longer key replaced by the longer key's value, the shorter key      *)
(* being replaced only where the longer one does not match; a scalar that  *)
(* is not a string is returned as it is.  The code rewrites the string     *)
(* once per key, so the shorter key is also replaced inside the text the   *)
(* longer key's pass has just produced.                                    *)
(***************************************************************************)
C20_LongestKeyWins ==
    subs.applied =>
        /\ ~isinstance(subs.v, "str") => subs.out = subs.v
        /\ (/\ isinstance(subs.v, "str")
            /\ \/ ProperPrefix(subs.env[1].key, subs.env[2].key)
               \/ ProperPrefix(subs.env[2].key, subs.env[1].key)) =>
              subs.out = PyStr(OneScan(subs.v.s, env_keys(subs.env), subs.env))

(***************************************************************************)
(* C21 as claimed: over the whole run, all scans of all three modes, the   *)
(* constructor of every descriptor is invoked at most once, and no step    *)
(* touches a descriptor that is resolved: its key stays in experiment with *)
(* the same value, its factory (class, param2config_key and parameters)    *)
(* stays the same, and its constructor is not invoked again.  The code     *)
(* does this as long as no constructor raises an                           *)
(* UnconfiguredItemsException in mode 0 or 1 (C11): the keys constructed   *)
(* earlier in that scan are still in config and the next mode constructs   *)
(* them again.                                                             *)
(***************************************************************************)
C21_ConstructedOnce ==
    /\ [](\A k \in DOMAIN calls : calls[k] <= 1)
    /\ [][\A k \in Descriptors(raw) \cap Resolved :
            /\ k \in DictKeys(experiment')
            /\ DictGet(experiment', k) = DictGet(experiment, k)
            /\ factories'[k] = factories[k]
            /\ calls'[k] = calls[k]]_vars


(* The class of an entry at classification: 0 for a scalar, 1 for a list   *)
(* of scalars, 2 for what is left to _build_items.                         *)
Rank(k) == IF IsSimple(RawVal(k)) THEN 0 ELSE IF IsSimpleList(RawVal(k)) THEN 1 ELSE 2

(* The keys whose resolved values the constructor of k was given, by alias *)
(* (lines 243-250) or by direct key match (line 253).                      *)
Suppliers(k) ==
    UNION {IF Kind(<<k, arg>>) \in {"alias", "list_alias"} THEN AliasKeys(Record(<<k, arg>>))
           ELSE IF Kind(<<k, arg>>) = "direct" THEN {arg}
           ELSE {} : arg \in DOMAIN built[k].src}

(* The keys in the order the last call of __iter__ or keys gave them. *)
IterationOrder == [n \in 1..Len(call.value.elems) |-> call.value.elems[n].s]

(***************************************************************************)
(* C22 as claimed: whenever __iter__ or keys returns, the keys come with   *)
(* the scalars first, then the lists of scalars, then the descriptors;     *)
(* every descriptor was constructed with the descriptors before it already *)
(* resolved; and every key that supplied a parameter of a descriptor, by   *)
(* alias or by direct key match, comes strictly before that descriptor.    *)
(* The code does this as long as no constructor raises an                  *)
(* UnconfiguredItemsException in mode 0 or 1 (C11): a descriptor that is   *)
(* constructed again can be given the value of its own key.                *)
(***************************************************************************)
C22_OrderRespectsDependencies ==
    (call.op \in {"iter", "keys"} /\ call.result = "returned") =>
        LET order == IterationOrder
        IN  /\ \A m, n \in 1..Len(order) : m < n => Rank(order[m]) <= Rank(order[n])
            /\ \A m, n \in 1..Len(order) :
                  (m < n /\ Rank(order[m]) = 2 /\ Rank(order[n]) = 2) =>
                      order[m] \in built[order[n]].resolved
            /\ \A n \in 1..Len(order) :
                  Rank(order[n]) = 2 =>
                      \A sup \in Suppliers(order[n]) : \E m \in 1..(n - 1) : order[m] = sup


(***************************************************************************)
(* The same configuration with its top-level keys in another order, under  *)
(* the same registry and the same env: once a first __init__ has returned  *)
(* or raised, with constructors that returned, a second one is given a     *)
(* dict of the same items inserted in any order.                           *)
(***************************************************************************)
MaxReorderEntries == 2

Reorderings(cfg) ==
    {[n \in 1..Len(cfg) |-> cfg[f[n]]] :
        f \in {g \in [1..Len(cfg) -> 1..Len(cfg)] :
                  \A m, n \in 1..Len(cfg) : m # n => g[m] # g[n]}}

AgainReordered ==
    /\ pc \in {"done", "raised"}
    /\ thrown = {}
    /\ ~first.ran
    /\ first' = [ran |-> TRUE, pc |-> pc, error |-> error, items |-> items,
                 experiment |-> experiment, factories |-> factories]
    /\ raw' \in Reorderings(raw)
    /\ pc' = "init"
    /\ mode' = 0
    /\ config' = raw'
    /\ experiment' = <<>>
    /\ factories' = <<>>
    /\ idx' = 0
    /\ configured' = {}
    /\ unconfigured' = <<>>
    /\ error' = "none"
    /\ items' = <<>>
    /\ selfExperiment' = NoSelfExperiment
    /\ built' = <<>>
    /\ pass_i' = 1
    /\ calls' = <<>>
    /\ UNCHANGED <<thrown, registry, call, subs>>

InitReorder ==
    /\ raw \in UNION { ConfigsOfLen(n) : n \in 0..MaxReorderEntries }
    /\ Start
    /\ subs = NoSubs

NextReorder == Next \/ AgainReordered

ReorderSpec == InitReorder /\ [][NextReorder]_vars

(***************************************************************************)
(* C23 as claimed: when a configuration and a reordering of it both        *)
(* complete, with constructors that return, every key has the same factory *)
(* in both: the same class, the same param2config_key and the same value   *)
(* for every parameter.  The code constructs the descriptors of one scan   *)
(* in declaration order and line 252 looks at the experiment filled so     *)
(* far, so in mode 2 a parameter is given the value of a key constructed   *)
(* earlier in the scan and its default when that key comes later; the      *)
(* fall-through of C5 does the same to experiment_config in every mode.    *)
(***************************************************************************)
C23_SourcesOrderIndependent ==
    (first.ran /\ first.pc = "done" /\ pc = "done" /\ thrown = {}) =>
        factories = first.factories


(* The parameters of key k that the two runs supplied differently: another *)
(* value or another entry of param2config_key.                             *)
Differ(k) ==
    {arg \in DOMAIN factories[k].kwargs :
        \/ factories[k].kwargs[arg] # first.factories[k].kwargs[arg]
        \/ factories[k].param2config_key[arg] # first.factories[k].param2config_key[arg]}

(***************************************************************************)
(* C23 amended: when a configuration and a reordering of it both complete, *)
(* with constructors that return, they resolve the same keys with the same *)
(* classes and the same parameter names, the simple entries are equal, and *)
(* a parameter other than experiment_config is supplied differently only   *)
(* in one case: the descriptor is constructed in mode 2, declares no alias *)
(* for the parameter, the parameter has a constructor default and its name *)
(* is the key of a descriptor.  Then one order records None and supplies   *)
(* the default and the other records the name and supplies the value of    *)
(* that key.                                                               *)
(***************************************************************************)
C23_SourcesAgreeExceptLastModeDefault ==
    (first.ran /\ first.pc = "done" /\ pc = "done" /\ thrown = {}) =>
        /\ DOMAIN factories = DOMAIN first.factories
        /\ \A k \in DOMAIN factories \ Descriptors(raw) : factories[k] = first.factories[k]
        /\ \A k \in Descriptors(raw) :
              /\ factories[k].cls = first.factories[k].cls
              /\ DOMAIN factories[k].kwargs = DOMAIN first.factories[k].kwargs
              /\ DOMAIN factories[k].param2config_key = DOMAIN first.factories[k].param2config_key
              /\ \A arg \in Differ(k) \ {experiment_config} :
                    /\ built[k].tier = LastMode
                    /\ arg \in Descriptors(raw)
                    /\ arg \notin DOMAIN named_params(RawVal(k))
                    /\ arg \in DOMAIN default_params(ItemSpec(RawVal(k)))
                    /\ {factories[k].param2config_key[arg],
                        first.factories[k].param2config_key[arg]} = {PyNone, PyStr(arg)}
                    /\ {factories[k].kwargs[arg], first.factories[k].kwargs[arg]}
                          = {default_params(ItemSpec(RawVal(k)))[arg], DictGet(experiment, arg)}

(* Both orders completed a configuration of two descriptors that were      *)
(* constructed in the same scan, in the one order and in the other, and    *)
(* every parameter was supplied alike.                                     *)
C23_Witness ==
    /\ first.ran
    /\ first.pc = "done"
    /\ pc = "done"
    /\ thrown = {}
    /\ Cardinality(Descriptors(raw)) = 2
    /\ experiment # first.experiment
    /\ factories = first.factories
    /\ \E k \in Descriptors(raw) : \E arg \in DOMAIN built[k].src : built[k].src[arg] = "literal"

====
